---- MODULE Spec2Model ----
(***************************************************************************)
(* Edit history and undo/redo engine of redline.                           *)
(*                                                                         *)
(* The history store (src/agent/history.ts, kept as src/unnamed/part_001   *)
(* lines 43-157) is modelled from its source.  The request handlers of     *)
(* src/server/api.ts (apply / undo / redo / history-state) are not part of *)
(* the source tree at hand; they are modelled from spec.md sections 4.2,   *)
(* 6 and 7 and from the requests of test/api-undo.test.ts.                 *)
(*                                                                         *)
(* A file is a sequence of lines; the text of an edit (original, modified) *)
(* is a non-empty sequence of lines.  The timestamp of an event is not     *)
(* modelled: nothing in the store reads it.                                *)
(***************************************************************************)
EXTENDS Integers, Sequences, FiniteSets, TLC

\* ---------------------------------------------------------------- bounds
MaxSeq == 6
MaxSeqTwo == 3
MaxSeqStore == 3
MaxApplies == MaxSeq \div 3
MaxExternal == 1
MaxLines == 3

\* ------------------------------------------------------------ vocabulary
Paths == {"f1", "f2"}
NoPath == "nopath"
Null == -1
None == [seq |-> Null]

LineCode(l) == CASE l = "x" -> 1 [] l = "y" -> 2 [] OTHER -> 3
ModTexts == {<<"x">>, <<"y", "x">>}
ExternalTexts == {<<"z">>}
InitialContent == <<"x", "y">>
InitialContentTwo == <<"x">>
InitialContentPair == <<"y", "y">>

VARIABLES store, globalSeq, disk, resp, snap, post, budget

vars == <<store, globalSeq, disk, resp, snap, post, budget>>

\* --------------------------------------------------------- history store
NoMeta == [undo |-> FALSE, undoTarget |-> Null, redo |-> FALSE, redoTarget |-> Null]
UndoMeta(t) == [undo |-> TRUE, undoTarget |-> t, redo |-> FALSE, redoTarget |-> Null]
RedoMeta(t) == [undo |-> FALSE, undoTarget |-> Null, redo |-> TRUE, redoTarget |-> t]

EditEvent(s, e, orig, mod, hb, ha, meta) ==
    [startLine |-> s, endLine |-> e, original |-> orig, modified |-> mod,
     originalLineCount |-> Len(orig), modifiedLineCount |-> Len(mod),
     hashBefore |-> hb, hashAfter |-> ha, meta |-> meta]

\* the digest of a text: distinct texts have distinct digests
RECURSIVE digest(_)
digest(content) ==
    IF content = <<>> THEN 0
    ELSE LineCode(Head(content)) + 4 * digest(Tail(content))

\* mutant: the digest of the length of the text
hashContent_length(content) == Len(content)

\* mutant: the digest of the first line of the text
hashContent_firstLine(content) == IF content = <<>> THEN 0 ELSE LineCode(Head(content))

\* mutant: the digest of the last line of the text
hashContent_lastLine(content) ==
    IF content = <<>> THEN 0 ELSE LineCode(content[Len(content)])

hashContent(content) == digest(content)

getEvents(st, filePath) == IF filePath \in DOMAIN st THEN st[filePath] ELSE <<>>

\* mutant: a missing log is created by the read
storeAfterGetEvents_creates(st, filePath) ==
    [p \in (DOMAIN st) \cup {filePath} |-> getEvents(st, p)]

\* the store after getEvents: the read leaves the map as it is
storeAfterGetEvents(st, filePath) == st

\* mutant: the seq is the position in the file's own log
appendEvent_perFileSeq(st, gs, filePath, event) ==
    LET events == getEvents(st, filePath)
        full == [seq |-> Len(events) + 1, filePath |-> filePath] @@ event
    IN [store |-> [p \in (DOMAIN st) \cup {filePath} |->
                      IF p = filePath THEN Append(events, full) ELSE st[p]],
        globalSeq |-> gs + 1,
        full |-> full]

\* mutant: the file's log is replaced by the new event
appendEvent_replace(st, gs, filePath, event) ==
    LET full == [seq |-> gs + 1, filePath |-> filePath] @@ event
    IN [store |-> [p \in (DOMAIN st) \cup {filePath} |->
                      IF p = filePath THEN <<full>> ELSE st[p]],
        globalSeq |-> gs + 1,
        full |-> full]

\* mutant: one list of events shared by all paths that have a log
appendEvent_sharedLog(st, gs, filePath, event) ==
    LET full == [seq |-> gs + 1, filePath |-> filePath] @@ event
    IN [store |-> [p \in (DOMAIN st) \cup {filePath} |-> Append(getEvents(st, p), full)],
        globalSeq |-> gs + 1,
        full |-> full]

\* appendEvent: the store and the counter after the push
appendEvent(st, gs, filePath, event) ==
    LET full == [seq |-> gs + 1, filePath |-> filePath] @@ event
        events == getEvents(st, filePath)
    IN [store |-> [p \in (DOMAIN st) \cup {filePath} |->
                      IF p = filePath THEN Append(events, full) ELSE st[p]],
        globalSeq |-> gs + 1,
        full |-> full]

\* mutant: nothing is collected
buildIneffectiveSeqs_none(events) == {}

\* mutant: only the targets of undo events are collected
buildIneffectiveSeqs_undoOnly(events) ==
    {events[i].meta.undoTarget : i \in {j \in 1..Len(events) :
            events[j].meta.undo /\ events[j].meta.undoTarget # Null}}

\* mutant: only the targets of redo events are collected
buildIneffectiveSeqs_redoOnly(events) ==
    {events[i].meta.redoTarget : i \in {j \in 1..Len(events) :
            events[j].meta.redo /\ events[j].meta.redoTarget # Null}}

\* mutant: the undo or redo event itself is collected, not its target
buildIneffectiveSeqs_self(events) ==
    {events[i].seq : i \in {j \in 1..Len(events) :
            \/ events[j].meta.undo /\ events[j].meta.undoTarget # Null
            \/ events[j].meta.redo /\ events[j].meta.redoTarget # Null}}

buildIneffectiveSeqs(events) ==
    {events[i].meta.undoTarget : i \in {j \in 1..Len(events) :
            events[j].meta.undo /\ events[j].meta.undoTarget # Null}}
    \cup
    {events[i].meta.redoTarget : i \in {j \in 1..Len(events) :
            events[j].meta.redo /\ events[j].meta.redoTarget # Null}}

RECURSIVE findLastEffectiveFrom(_, _, _)
findLastEffectiveFrom(events, ineffective, i) ==
    IF i < 1 THEN None
    ELSE IF events[i].seq \notin ineffective /\ ~events[i].meta.undo THEN events[i]
    ELSE findLastEffectiveFrom(events, ineffective, i - 1)

\* mutant: the scan runs from the start of the log
findLastEffective_first(events, ineffective) ==
    LET ok == {i \in 1..Len(events) :
                  events[i].seq \notin ineffective /\ ~events[i].meta.undo}
    IN IF ok = {} THEN None ELSE events[CHOOSE i \in ok : \A j \in ok : i <= j]

\* mutant: the ineffective set is not consulted
findLastEffective_cancelled(events, ineffective) ==
    findLastEffectiveFrom(events, {}, Len(events))

\* mutant: undo events are candidates too
findLastEffective_anyKind(events, ineffective) ==
    LET ok == {i \in 1..Len(events) : events[i].seq \notin ineffective}
    IN IF ok = {} THEN None ELSE events[CHOOSE i \in ok : \A j \in ok : i >= j]

\* mutant: only events without meta are candidates
findLastEffective_plainOnly(events, ineffective) ==
    LET ok == {i \in 1..Len(events) :
                  /\ events[i].seq \notin ineffective
                  /\ ~events[i].meta.undo /\ ~events[i].meta.redo}
    IN IF ok = {} THEN None ELSE events[CHOOSE i \in ok : \A j \in ok : i >= j]

findLastEffective(events, ineffective) ==
    findLastEffectiveFrom(events, ineffective, Len(events))

RECURSIVE findLastUndoneFrom(_, _, _)
findLastUndoneFrom(events, ineffective, i) ==
    IF i < 1 THEN None
    ELSE IF events[i].seq \notin ineffective /\ events[i].meta.undo THEN events[i]
    ELSE findLastUndoneFrom(events, ineffective, i - 1)

\* mutant: the scan runs from the start of the log
findLastUndone_first(events, ineffective) ==
    LET ok == {i \in 1..Len(events) :
                  events[i].seq \notin ineffective /\ events[i].meta.undo}
    IN IF ok = {} THEN None ELSE events[CHOOSE i \in ok : \A j \in ok : i <= j]

\* mutant: the scan starts one event short of the end of the log
findLastUndone_skipLast(events, ineffective) ==
    findLastUndoneFrom(events, ineffective, Len(events) - 1)

\* mutant: an undo already named by a redo is still a candidate
findLastUndone_redone(events, ineffective) ==
    findLastUndoneFrom(events, {}, Len(events))

findLastUndone(events, ineffective) ==
    findLastUndoneFrom(events, ineffective, Len(events))

\* mutant: any event in the log makes the file undoable
canUndo_nonEmpty(st, filePath) == getEvents(st, filePath) # <<>>

\* mutant: the events that an undo has named still count
canUndo_cancelled(st, filePath) ==
    LET events == getEvents(st, filePath)
    IN findLastEffective(events, {}) # None

canUndo(st, filePath) ==
    LET events == getEvents(st, filePath)
    IN findLastEffective(events, buildIneffectiveSeqs(events)) # None

\* mutant: only the most recent event is looked at
canRedo_lastEvent(st, filePath) ==
    LET events == getEvents(st, filePath)
    IN events # <<>> /\ events[Len(events)].meta.undo

canRedo(st, filePath) ==
    LET events == getEvents(st, filePath)
    IN findLastUndone(events, buildIneffectiveSeqs(events)) # None

\* ------------------------------------------------------ protocol helpers
\* lines [start, start + count - 1] of content replaced by text
\* mutant: the replaced range is taken to be as long as the text put in
replaceRange_sameCount(content, start, count, text) ==
    SubSeq(content, 1, start - 1) \o text \o SubSeq(content, start + Len(text), Len(content))

replaceRange(content, start, count, text) ==
    SubSeq(content, 1, start - 1) \o text \o SubSeq(content, start + count, Len(content))

eventBySeq(events, s) ==
    LET m == {i \in 1..Len(events) : events[i].seq = s}
    IN IF m = {} THEN None ELSE events[CHOOSE i \in m : TRUE]

Response(op, path, status, error) ==
    [op |-> op, path |-> path, status |-> status, error |-> error,
     canUndo |-> FALSE, canRedo |-> FALSE]

Fail(op, path, status, error) ==
    /\ resp' = Response(op, path, status, error)
    /\ UNCHANGED <<store, globalSeq, disk, snap, post, budget>>

\* a mutation of the file followed by the append of its event
Commit(op, f, newContent, event) ==
    LET r == appendEvent(store, globalSeq, f, event)
    IN /\ budget.events > 0
       /\ disk' = [disk EXCEPT ![f] = newContent]
       /\ store' = r.store
       /\ globalSeq' = r.globalSeq
       /\ snap' = (r.full.seq :> disk[f]) @@ snap
       /\ post' = (r.full.seq :> newContent) @@ post
       /\ resp' = Response(op, f, 200, "")

\* -------------------------------------------------------------- requests
\* Requests name lines the file has (e <= Len(content)); what the handler does
\* with a range past the end of the file is not described and is left out.
\* snap and post record, per seq, the content of the file right before and
\* right after the mutation of that event; only the claims read them.
\* mutant: the range is not validated
Apply_anyRange(f, s, e, text) ==
    IF f = NoPath
    THEN Fail("apply", f, 400, "ValidationError")
    ELSE IF f \notin DOMAIN disk
    THEN Fail("apply", f, 404, "NotFoundError")
    ELSE LET content == disk[f]
             newContent == replaceRange(content, s, e - s + 1, text)
         IN /\ e <= Len(content)
            /\ Len(newContent) <= MaxLines
            /\ budget.applies > 0
            /\ budget' = [budget EXCEPT !.applies = @ - 1, !.events = @ - 1]
            /\ Commit("apply", f, newContent,
                      EditEvent(s, e, SubSeq(content, s, e), text,
                                hashContent(content), hashContent(newContent), NoMeta))

Apply(f, s, e, text) ==
    IF f = NoPath \/ s > e
    THEN Fail("apply", f, 400, "ValidationError")
    ELSE IF f \notin DOMAIN disk
    THEN Fail("apply", f, 404, "NotFoundError")
    ELSE LET content == disk[f]
             newContent == replaceRange(content, s, e - s + 1, text)
         IN /\ e <= Len(content)
            /\ Len(newContent) <= MaxLines
            /\ budget.applies > 0
            /\ budget' = [budget EXCEPT !.applies = @ - 1, !.events = @ - 1]
            /\ Commit("apply", f, newContent,
                      EditEvent(s, e, SubSeq(content, s, e), text,
                                hashContent(content), hashContent(newContent), NoMeta))

Undo(f) ==
    IF f = NoPath
    THEN Fail("undo", f, 400, "ValidationError")
    ELSE LET events == getEvents(store, f)
             E == findLastEffective(events, buildIneffectiveSeqs(events))
         IN IF E = None
            THEN Fail("undo", f, 400, "Nothing to undo")
            ELSE IF hashContent(disk[f]) # E.hashAfter
            THEN Fail("undo", f, 409, "ConflictError")
            ELSE LET newContent == replaceRange(disk[f], E.startLine,
                                                E.modifiedLineCount, E.original)
                 IN /\ Commit("undo", f, newContent,
                              EditEvent(E.startLine, E.startLine + E.modifiedLineCount - 1,
                                        E.modified, E.original,
                                        E.hashAfter, hashContent(newContent),
                                        UndoMeta(E.seq)))
                    /\ budget' = [budget EXCEPT !.events = @ - 1]

Redo(f) ==
    IF f = NoPath
    THEN Fail("redo", f, 400, "ValidationError")
    ELSE LET events == getEvents(store, f)
             U == findLastUndone(events, buildIneffectiveSeqs(events))
         IN IF U = None
            THEN Fail("redo", f, 400, "Nothing to redo")
            ELSE IF hashContent(disk[f]) # U.hashAfter
            THEN Fail("redo", f, 409, "ConflictError")
            ELSE LET T == eventBySeq(events, U.meta.undoTarget)
                     newContent == replaceRange(disk[f], U.startLine,
                                                U.modifiedLineCount, T.modified)
                 IN /\ T # None
                    /\ Commit("redo", f, newContent,
                              EditEvent(U.startLine, U.startLine + U.modifiedLineCount - 1,
                                        U.modified, T.modified,
                                        U.hashAfter, hashContent(newContent),
                                        RedoMeta(U.seq)))
                    /\ budget' = [budget EXCEPT !.events = @ - 1]

HistoryState(f) ==
    IF f = NoPath
    THEN Fail("state", f, 400, "ValidationError")
    ELSE /\ resp' = [Response("state", f, 200, "") EXCEPT
                        !.canUndo = canUndo(store, f), !.canRedo = canRedo(store, f)]
         /\ store' = storeAfterGetEvents(store, f)
         /\ UNCHANGED <<globalSeq, disk, snap, post, budget>>

\* ------------------------------------------- direct calls of the store
\* the meta a caller of appendEvent passes: none, or a tag naming an event
\* appended before (or, for an undo tag, no target at all)
RawMetas(gs) ==
    {NoMeta, UndoMeta(Null)} \cup {UndoMeta(t) : t \in 1..gs} \cup {RedoMeta(t) : t \in 1..gs}

AppendEventCall(f, meta) ==
    LET r == appendEvent(store, globalSeq, f,
                         EditEvent(1, 1, <<"x">>, <<"y">>,
                                   hashContent(<<"x">>), hashContent(<<"y">>), meta))
    IN /\ budget.events > 0
       /\ store' = r.store
       /\ globalSeq' = r.globalSeq
       /\ budget' = [budget EXCEPT !.events = @ - 1]
       /\ resp' = Response("append", f, 0, "")
       /\ UNCHANGED <<disk, snap, post>>

GetEventsCall(f) ==
    /\ resp' = [events |-> getEvents(store, f)] @@ Response("getEvents", f, 0, "")
    /\ store' = storeAfterGetEvents(store, f)
    /\ UNCHANGED <<globalSeq, disk, snap, post, budget>>

CanUndoCall(f) ==
    /\ resp' = [Response("canUndo", f, 0, "") EXCEPT !.canUndo = canUndo(store, f)]
    /\ store' = storeAfterGetEvents(store, f)
    /\ UNCHANGED <<globalSeq, disk, snap, post, budget>>

CanRedoCall(f) ==
    /\ resp' = [Response("canRedo", f, 0, "") EXCEPT !.canRedo = canRedo(store, f)]
    /\ store' = storeAfterGetEvents(store, f)
    /\ UNCHANGED <<globalSeq, disk, snap, post, budget>>

\* a write to the file that does not go through the protocol
ExternalWrite(f, text) ==
    /\ budget.external > 0
    /\ f \in DOMAIN disk
    /\ disk[f] # text
    /\ disk' = [disk EXCEPT ![f] = text]
    /\ budget' = [budget EXCEPT !.external = @ - 1]
    /\ resp' = Response("external", f, 0, "")
    /\ UNCHANGED <<store, globalSeq, snap, post>>

resetStore ==
    /\ globalSeq > 0
    /\ store' = <<>>
    /\ globalSeq' = 0
    /\ snap' = <<>>
    /\ post' = <<>>
    /\ resp' = Response("reset", NoPath, 0, "")
    /\ UNCHANGED <<disk, budget>>

\* --------------------------------------------------------- specification
\* the requests the environment still issues: model bounds, not program state
Budget(events, applies, external) ==
    [events |-> events, applies |-> applies, external |-> external]

InitStore ==
    /\ store = <<>>
    /\ globalSeq = 0
    /\ resp = Response("none", NoPath, 0, "")
    /\ snap = <<>>
    /\ post = <<>>

\* one file in the root directory
Init ==
    /\ InitStore
    /\ disk = [p \in {"f1"} |-> InitialContent]
    /\ budget = Budget(MaxSeq, MaxApplies, MaxExternal)

\* one file in the root directory, a short session
InitShort ==
    /\ InitStore
    /\ disk = [p \in {"f1"} |-> InitialContent]
    /\ budget = Budget(MaxSeqTwo, MaxApplies, MaxExternal)

\* one file in the root directory, each of its lines open to a change
InitPair ==
    /\ InitStore
    /\ disk = [p \in {"f1"} |-> InitialContentPair]
    /\ budget = Budget(MaxSeq, MaxApplies, MaxExternal)

\* two files in the root directory
InitTwo ==
    /\ InitStore
    /\ disk = [p \in Paths |-> InitialContentTwo]
    /\ budget = Budget(MaxSeqTwo, MaxApplies, MaxExternal)

\* the store called directly, one file in the root directory
InitCalls ==
    /\ InitStore
    /\ disk = [p \in {"f1"} |-> InitialContentTwo]
    /\ budget = Budget(MaxSeqStore, 0, 0)

ApplyStep == \E f \in Paths \cup {NoPath} : \E s \in 1..MaxLines : \E e \in 1..MaxLines :
                \E text \in ModTexts : Apply(f, s, e, text)
UndoStep == \E f \in Paths \cup {NoPath} : Undo(f)
RedoStep == \E f \in Paths \cup {NoPath} : Redo(f)
HistoryStateStep == \E f \in Paths \cup {NoPath} : HistoryState(f)
ExternalWriteStep == \E f \in Paths : \E text \in ExternalTexts : ExternalWrite(f, text)

Next ==
    \/ ApplyStep
    \/ UndoStep
    \/ RedoStep
    \/ HistoryStateStep
    \/ ExternalWriteStep
    \/ resetStore

Spec == Init /\ [][Next]_vars

AppendEventStep == \E f \in Paths : \E meta \in RawMetas(globalSeq) : AppendEventCall(f, meta)
GetEventsStep == \E f \in Paths : GetEventsCall(f)
CanUndoStep == \E f \in Paths : CanUndoCall(f)
CanRedoStep == \E f \in Paths : CanRedoCall(f)

NextCalls ==
    \/ AppendEventStep
    \/ GetEventsStep
    \/ CanUndoStep
    \/ CanRedoStep
    \/ HistoryStateStep
    \/ resetStore

SpecCalls == InitCalls /\ [][NextCalls]_vars

SpecTwo == InitTwo /\ [][Next]_vars

SpecShort == InitShort /\ [][Next]_vars

SpecPair == InitPair /\ [][Next]_vars

\* ------------------------------------------------- vocabulary of the claims
Last(q) == q[Len(q)]
IsPlain(e) == ~e.meta.undo /\ ~e.meta.redo

\* some event of the log names s as its undo or redo target
Cancelled(events, s) ==
    \E j \in 1..Len(events) :
        \/ events[j].meta.undo /\ events[j].meta.undoTarget = s
        \/ events[j].meta.redo /\ events[j].meta.redoTarget = s

\* the apply or redo event highest in the log that no event has cancelled
MostRecentEffective(events) ==
    LET ok == {i \in 1..Len(events) :
                  ~events[i].meta.undo /\ ~Cancelled(events, events[i].seq)}
    IN IF ok = {} THEN None ELSE events[CHOOSE i \in ok : \A j \in ok : i >= j]

\* the undo event highest in the log that no redo has cancelled
MostRecentUndone(events) ==
    LET ok == {i \in 1..Len(events) :
                  events[i].meta.undo /\ ~Cancelled(events, events[i].seq)}
    IN IF ok = {} THEN None ELSE events[CHOOSE i \in ok : \A j \in ok : i >= j]

\* the step is the request op on file f
Requested(op, f) == resp'.op = op /\ resp'.path = f
Untouched == disk' = disk /\ store' = store /\ globalSeq' = globalSeq

\* ------------------------------------------------------------------ C1
\* C1: a successful undo leaves the file with exactly the content it had
\* right before the mutation of the most recent effective apply/redo event,
\* whether that edit kept, increased or decreased the number of lines.
UndoRestoresPreEdit ==
    [][\A f \in Paths :
          (Requested("undo", f) /\ resp'.status = 200) =>
              LET E == MostRecentEffective(getEvents(store, f))
              IN /\ E # None
                 /\ Last(getEvents(store', f)).meta.undoTarget = E.seq
                 /\ disk'[f] = snap[E.seq]]_vars

\* an expansion has been undone and now a collapse has been undone
UndoRestoresPreEditWitness ==
    LET L == getEvents(store, "f1")
    IN /\ resp.op = "undo" /\ resp.status = 200 /\ resp.path = "f1"
       /\ Len(L) = 4
       /\ L[1].originalLineCount < L[1].modifiedLineCount
       /\ L[2].meta.undo /\ L[2].meta.undoTarget = L[1].seq
       /\ L[3].originalLineCount > L[3].modifiedLineCount
       /\ L[4].meta.undo /\ L[4].meta.undoTarget = L[3].seq
       /\ disk["f1"] = snap[L[3].seq]
       /\ Len(disk["f1"]) > Len(post[L[3].seq])

\* ------------------------------------------------------------------ C2
\* C2: a redo requested right after a successful undo of the same file
\* succeeds and leaves the file with the content it had before that undo.
RedoReproducesPostEdit ==
    [][\A f \in Paths :
          (resp.op = "undo" /\ resp.path = f /\ resp.status = 200 /\ Requested("redo", f)) =>
              /\ resp'.status = 200
              /\ disk'[f] = snap[Last(getEvents(store, f)).seq]]_vars

\* a collapse was undone and redone: the file is short again
RedoReproducesPostEditWitness ==
    LET L == getEvents(store, "f1")
    IN /\ resp.op = "redo" /\ resp.status = 200 /\ resp.path = "f1"
       /\ Len(L) >= 3
       /\ Last(L).meta.redo /\ Last(L).meta.redoTarget = L[Len(L) - 1].seq
       /\ L[Len(L) - 1].meta.undo /\ L[Len(L) - 1].meta.undoTarget = L[Len(L) - 2].seq
       /\ disk["f1"] = post[L[Len(L) - 2].seq]
       /\ Len(snap[L[Len(L) - 2].seq]) > Len(disk["f1"])

\* ------------------------------------------------------------------ C3
\* C3: an undo (redo) requested while the file differs from what the event
\* to undo (the undo to redo) left behind, so that its hash differs from
\* that event's hashAfter, fails with ConflictError 409 and changes neither
\* the file nor the log.
ConflictDetected ==
    [][\A f \in Paths :
          LET events == getEvents(store, f)
              ineffective == buildIneffectiveSeqs(events)
              E == findLastEffective(events, ineffective)
              U == findLastUndone(events, ineffective)
              differs(ev) == \/ disk[f] # post[ev.seq]
                             \/ hashContent(disk[f]) # ev.hashAfter
          IN /\ (Requested("undo", f) /\ E # None /\ differs(E)) =>
                    (resp'.status = 409 /\ resp'.error = "ConflictError" /\ Untouched)
             /\ (Requested("redo", f) /\ U # None /\ differs(U)) =>
                    (resp'.status = 409 /\ resp'.error = "ConflictError" /\ Untouched)]_vars

\* a redo refused after the file was overwritten behind the protocol's back
ConflictDetectedWitness ==
    LET L == getEvents(store, "f1")
    IN /\ resp.op = "redo" /\ resp.status = 409 /\ resp.path = "f1"
       /\ Len(L) = 2 /\ L[2].meta.undo
       /\ disk["f1"] = <<"z">>
       /\ post[L[2].seq] # disk["f1"]

\* ------------------------------------------------------------------ C4
\* the log of f ends with an apply, its undo and a new apply; that new apply
\* is the request just served and no write bypassed the protocol since the undo
RedoAfterNewApply(f) ==
    LET L == getEvents(store, f)
        n == Len(L)
    IN /\ n >= 3
       /\ IsPlain(L[n - 2])
       /\ L[n - 1].meta.undo /\ L[n - 1].meta.undoTarget = L[n - 2].seq
       /\ IsPlain(L[n])
       /\ resp.op = "apply" /\ resp.path = f /\ resp.status = 200
       /\ snap[L[n].seq] = post[L[n - 1].seq]
       /\ disk[f] = post[L[n].seq]

RedoRefused == resp'.status = 409 /\ resp'.error = "ConflictError" /\ Untouched

\* C4 as stated: after an apply, its undo and any new successful apply, a
\* redo request fails with 409 and does not re-apply the undone edit (taken
\* here for an undone edit that had changed the file).
RedoInvalidatedByAnyApply ==
    [][\A f \in Paths :
          (/\ Requested("redo", f)
           /\ RedoAfterNewApply(f)
           /\ LET L == getEvents(store, f)
              IN snap[L[Len(L) - 2].seq] # post[L[Len(L) - 2].seq])
              => RedoRefused]_vars

\* C4 amended: after an apply, its undo and a new successful apply that
\* changes the content of the file, a redo request fails with 409 and does
\* not re-apply the undone edit.
RedoInvalidatedByChangingApply ==
    [][\A f \in Paths :
          (/\ Requested("redo", f)
           /\ RedoAfterNewApply(f)
           /\ snap[Last(getEvents(store, f)).seq] # post[Last(getEvents(store, f)).seq])
              => RedoRefused]_vars

\* the redo was refused after a new apply that changed the file
RedoInvalidatedWitness ==
    LET L == getEvents(store, "f1")
    IN /\ resp.op = "redo" /\ resp.status = 409 /\ resp.path = "f1"
       /\ Len(L) = 3
       /\ IsPlain(L[1]) /\ L[2].meta.undo /\ L[2].meta.undoTarget = L[1].seq
       /\ IsPlain(L[3])
       /\ snap[L[3].seq] = post[L[2].seq]
       /\ snap[L[3].seq] # post[L[3].seq]
       /\ disk["f1"] = post[L[3].seq]

\* ------------------------------------------------------------------ C5
\* the log ends with n plain applies followed by j undo events, and the file
\* was written by nothing else from the first of these applies on
ApplyUndoRun(f, n, j) ==
    LET L == getEvents(store, f)
        base == Len(L) - j - n
    IN /\ base >= 0
       /\ \A i \in 1..n : IsPlain(L[base + i])
       /\ \A i \in 1..j : L[base + n + i].meta.undo
       /\ \A i \in 1..(n + j - 1) : snap[L[base + i + 1].seq] = post[L[base + i].seq]
       /\ disk[f] = post[Last(L).seq]

\* C5: undo is last-in-first-out.  After applies A1..An the k-th successive
\* undo request succeeds, targets A(n-k+1) and restores the content the file
\* had just before A(n-k+1); the n-th one restores the content before A1.
UndoIsLifo ==
    [][\A f \in Paths :
          Requested("undo", f) =>
              LET L == getEvents(store, f)
              IN \A n \in 1..Len(L) : \A k \in 1..n :
                    ApplyUndoRun(f, n, k - 1) =>
                        LET A == L[Len(L) - 2 * (k - 1)]
                        IN /\ resp'.status = 200
                           /\ Last(getEvents(store', f)).meta.undoTarget = A.seq
                           /\ disk'[f] = snap[A.seq]]_vars

\* two content-changing applies undone in reverse order: the file is back
UndoIsLifoWitness ==
    LET L == getEvents(store, "f1")
    IN /\ resp.op = "undo" /\ resp.status = 200 /\ resp.path = "f1"
       /\ Len(L) = 4
       /\ IsPlain(L[1]) /\ IsPlain(L[2])
       /\ snap[L[1].seq] # post[L[1].seq] /\ snap[L[2].seq] # post[L[2].seq]
       /\ snap[L[2].seq] = post[L[1].seq]
       /\ L[3].meta.undo /\ L[3].meta.undoTarget = L[2].seq
       /\ L[4].meta.undo /\ L[4].meta.undoTarget = L[1].seq
       /\ disk["f1"] = snap[L[1].seq]

\* ------------------------------------------------------------------ C6
\* C6: undo on a log without an effective event fails with 400 "Nothing to
\* undo", redo on a log without an un-cancelled undo event fails with 400
\* "Nothing to redo"; neither touches the file or the log.
EmptyHistoryRejected ==
    [][\A f \in Paths :
          LET events == getEvents(store, f)
          IN /\ (Requested("undo", f) /\ MostRecentEffective(events) = None) =>
                    (resp'.status = 400 /\ resp'.error = "Nothing to undo" /\ Untouched)
             /\ (Requested("redo", f) /\ MostRecentUndone(events) = None) =>
                    (resp'.status = 400 /\ resp'.error = "Nothing to redo" /\ Untouched)]_vars

\* nothing to undo on a log whose only edit has been undone
EmptyHistoryRejectedWitness ==
    LET L == getEvents(store, "f1")
    IN /\ resp.op = "undo" /\ resp.path = "f1"
       /\ resp.status = 400 /\ resp.error = "Nothing to undo"
       /\ Len(L) = 2 /\ IsPlain(L[1])
       /\ L[2].meta.undo /\ L[2].meta.undoTarget = L[1].seq

\* ------------------------------------------------------------------ C7
\* C7: canUndo and canRedo follow the current log: false/false on an empty
\* log, true/false after one apply, false/true once that apply is undone,
\* and true exactly when an effective event (an un-cancelled undo) exists;
\* a history-state answer carries these values.
CanUndoRedoReflectLog ==
    \A f \in Paths :
        LET L == getEvents(store, f)
        IN /\ L = <<>> => (~canUndo(store, f) /\ ~canRedo(store, f))
           /\ (Len(L) = 1 /\ IsPlain(L[1])) => (canUndo(store, f) /\ ~canRedo(store, f))
           /\ (Len(L) = 2 /\ IsPlain(L[1]) /\ L[2].meta.undo
                  /\ L[2].meta.undoTarget = L[1].seq) =>
                  (~canUndo(store, f) /\ canRedo(store, f))
           /\ canUndo(store, f) <=> (MostRecentEffective(L) # None)
           /\ canRedo(store, f) <=> (MostRecentUndone(L) # None)
           /\ (resp.op = "state" /\ resp.status = 200 /\ resp.path = f) =>
                  (resp.canUndo = canUndo(store, f) /\ resp.canRedo = canRedo(store, f))

\* the state query after apply and undo answers false/true
CanUndoRedoReflectLogWitness ==
    LET L == getEvents(store, "f1")
    IN /\ resp.op = "state" /\ resp.status = 200 /\ resp.path = "f1"
       /\ Len(L) = 2 /\ IsPlain(L[1]) /\ L[2].meta.undo
       /\ ~resp.canUndo /\ resp.canRedo

\* ------------------------------------------------------------------ C8
\* the positions of the store: a file path and an index into its log
Slots(st) == UNION {{<<f, i>> : i \in 1..Len(st[f])} : f \in DOMAIN st}

\* the largest seq in the whole store, 0 for an empty store
MaxStoredSeq(st) ==
    LET seqs == {st[sl[1]][sl[2]].seq : sl \in Slots(st)}
    IN IF seqs = {} THEN 0 ELSE CHOOSE m \in seqs : \A n \in seqs : m >= n

SeqsIncreasingAndUnique(st) ==
    /\ \A f \in DOMAIN st : \A i \in 1..(Len(st[f]) - 1) : st[f][i].seq < st[f][i + 1].seq
    /\ \A a \in Slots(st) : \A b \in Slots(st) :
           a # b => st[a[1]][a[2]].seq # st[b[1]][b[2]].seq

\* C8: seq values increase strictly along each file's log, no two events of
\* the whole store share a seq, and every appended event gets the largest
\* seq of the store so far plus one.
SeqMonotonicUnique ==
    [][/\ SeqsIncreasingAndUnique(store')
       /\ \A f \in Paths :
             Len(getEvents(store', f)) = Len(getEvents(store, f)) + 1 =>
                 Last(getEvents(store', f)).seq = MaxStoredSeq(store) + 1]_vars

\* the events of two files interleave: f1 holds seq 1 and 3, f2 holds seq 2
SeqMonotonicUniqueWitness ==
    /\ Len(getEvents(store, "f1")) = 2 /\ Len(getEvents(store, "f2")) = 1
    /\ store["f1"][1].seq = 1 /\ store["f2"][1].seq = 2 /\ store["f1"][2].seq = 3

\* ------------------------------------------------------------------ C9
IsPrefix(a, b) == Len(a) <= Len(b) /\ SubSeq(b, 1, Len(a)) = a

\* C9: the logs are append-only.  Every step but a store reset keeps every
\* log as a prefix of itself; a successful apply, undo or redo appends one
\* event to the log of its file and nothing else; a failed request, a state
\* query or a write outside the protocol appends nothing.
LogAppendOnly ==
    [][\/ resp'.op = "reset"
       \/ /\ \A f \in Paths : IsPrefix(getEvents(store, f), getEvents(store', f))
          /\ IF resp'.op \in {"apply", "undo", "redo"} /\ resp'.status = 200
             THEN /\ Len(getEvents(store', resp'.path)) = Len(getEvents(store, resp'.path)) + 1
                  /\ \A f \in Paths \ {resp'.path} :
                         getEvents(store', f) = getEvents(store, f)
             ELSE store' = store]_vars

\* a refused redo left two logs with events as they were
LogAppendOnlyWitness ==
    /\ resp.op = "redo" /\ resp.status = 409 /\ resp.path = "f1"
    /\ Len(getEvents(store, "f1")) = 2 /\ Len(getEvents(store, "f2")) = 1

\* ----------------------------------------------------------------- C10
\* C10: a plain apply event carries no undo/redo meta, the undoTarget of an
\* undo event is the seq of an earlier apply or redo event of the same log,
\* and the redoTarget of a redo event is the seq of an earlier undo event of
\* the same log.
MetaWellFormed ==
    /\ \A f \in DOMAIN store : \A i \in 1..Len(store[f]) :
           LET L == store[f]
               e == L[i]
           IN /\ e.filePath = f
              /\ IsPlain(e) => e.meta = NoMeta
              /\ e.meta.undo =>
                     /\ ~e.meta.redo /\ e.meta.redoTarget = Null
                     /\ \E j \in 1..(i - 1) :
                            L[j].seq = e.meta.undoTarget /\ ~L[j].meta.undo
              /\ e.meta.redo =>
                     /\ ~e.meta.undo /\ e.meta.undoTarget = Null
                     /\ \E j \in 1..(i - 1) :
                            L[j].seq = e.meta.redoTarget /\ L[j].meta.undo
    /\ (resp.status = 200 /\ resp.op \in {"apply", "undo", "redo"}) =>
           LET e == Last(getEvents(store, resp.path))
           IN /\ resp.op = "apply" => IsPlain(e)
              /\ resp.op = "undo" => e.meta.undo
              /\ resp.op = "redo" => e.meta.redo

\* one log holds an apply, the undo of it and the redo of that undo
MetaWellFormedWitness ==
    LET L == getEvents(store, "f2")
    IN /\ Len(L) = 3
       /\ IsPlain(L[1])
       /\ L[2].meta.undo /\ L[2].meta.undoTarget = L[1].seq
       /\ L[3].meta.redo /\ L[3].meta.redoTarget = L[2].seq

\* ----------------------------------------------------------------- C11
\* C11: for every log, buildIneffectiveSeqs is exactly the set of seqs that
\* some undo event names as its undoTarget or some redo event names as its
\* redoTarget; the seq of an event that no event names, the latest undo or
\* redo event in particular, is not in the set.
IneffectiveIsTargetSet ==
    \A f \in Paths :
        LET L == getEvents(store, f)
            S == buildIneffectiveSeqs(L)
        IN /\ \A s \in S : s # Null /\ Cancelled(L, s)
           /\ \A j \in 1..Len(L) :
                  /\ (L[j].meta.undo /\ L[j].meta.undoTarget # Null) =>
                         L[j].meta.undoTarget \in S
                  /\ (L[j].meta.redo /\ L[j].meta.redoTarget # Null) =>
                         L[j].meta.redoTarget \in S
                  /\ ~Cancelled(L, L[j].seq) => L[j].seq \notin S
           /\ (L # <<>> /\ ~IsPlain(Last(L))) => Last(L).seq \notin S

\* a log of an edit, its undo and the redo of that undo: the edit and the
\* undo are ineffective, the redo is not
IneffectiveIsTargetSetWitness ==
    LET L == getEvents(store, "f1")
    IN /\ Len(L) = 3 /\ IsPlain(L[1])
       /\ L[2].meta.undo /\ L[2].meta.undoTarget = L[1].seq
       /\ L[3].meta.redo /\ L[3].meta.redoTarget = L[2].seq
       /\ buildIneffectiveSeqs(L) = {L[1].seq, L[2].seq}

\* ----------------------------------------------------------------- C12
\* C12: findLastEffective(events, ineffective) is the event highest in the
\* log whose seq is not in the ineffective set and that is not an undo
\* event, plain and redo events alike, and none exactly when the log has no
\* such event; this for every candidate ineffective set.
Candidates(L, ineffective, wantUndo) ==
    {i \in 1..Len(L) : L[i].seq \notin ineffective /\ (L[i].meta.undo <=> wantUndo)}

FindLastEffectiveIsHighest ==
    \A f \in Paths : \A ineffective \in SUBSET (1..globalSeq) :
        LET L == getEvents(store, f)
            ok == Candidates(L, ineffective, FALSE)
            r == findLastEffective(L, ineffective)
        IN /\ (r = None) <=> (ok = {})
           /\ ok # {} => \E i \in ok : r = L[i] /\ \A j \in ok : j <= i

\* the redo at the end of the log is the last effective event, and with its
\* seq ruled out there is none
FindLastEffectiveIsHighestWitness ==
    LET L == getEvents(store, "f1")
    IN /\ Len(L) = 3 /\ IsPlain(L[1]) /\ L[2].meta.undo /\ L[3].meta.redo
       /\ findLastEffective(L, buildIneffectiveSeqs(L)) = L[3]
       /\ findLastEffective(L, {L[1].seq, L[3].seq}) = None

\* ----------------------------------------------------------------- C13
\* C13: findLastUndone(events, ineffective) is the undo event highest in the
\* log whose seq is not in the ineffective set, so an undo that a redo has
\* named is skipped, and none exactly when the log has no such event.
FindLastUndoneIsHighest ==
    \A f \in Paths : \A ineffective \in SUBSET (1..globalSeq) :
        LET L == getEvents(store, f)
            ok == Candidates(L, ineffective, TRUE)
            r == findLastUndone(L, ineffective)
        IN /\ (r = None) <=> (ok = {})
           /\ ok # {} => \E i \in ok : r = L[i] /\ \A j \in ok : j <= i

\* two undo events, the later one named by a redo: the earlier one is found
FindLastUndoneIsHighestWitness ==
    LET L == getEvents(store, "f1")
    IN /\ Len(L) = 3 /\ L[1].meta.undo /\ L[2].meta.undo
       /\ L[3].meta.redo /\ L[3].meta.redoTarget = L[2].seq
       /\ findLastUndone(L, buildIneffectiveSeqs(L)) = L[1]
\* ----------------------------------------------------------------- C14
\* C14: the undo event of a successful undo of E carries hashBefore =
\* E.hashAfter and hashAfter = E.hashBefore; the redo event of a successful
\* redo of the undo U of T carries hashBefore = U.hashAfter and hashAfter =
\* T.hashAfter.
HashesMirrorTarget ==
    \A f \in Paths :
        LET L == getEvents(store, f)
        IN \A k \in 1..Len(L) :
              /\ L[k].meta.undo =>
                     \E i \in 1..(k - 1) :
                         /\ L[i].seq = L[k].meta.undoTarget
                         /\ L[k].hashBefore = L[i].hashAfter
                         /\ L[k].hashAfter = L[i].hashBefore
              /\ L[k].meta.redo =>
                     \E j \in 1..(k - 1) : \E i \in 1..(j - 1) :
                         /\ L[j].seq = L[k].meta.redoTarget
                         /\ L[i].seq = L[j].meta.undoTarget
                         /\ L[k].hashBefore = L[j].hashAfter
                         /\ L[k].hashAfter = L[i].hashAfter

\* an edit that adds a line has been undone and redone: the three events
\* carry two different hashes
HashesMirrorTargetWitness ==
    LET L == getEvents(store, "f1")
    IN /\ Len(L) = 3 /\ IsPlain(L[1]) /\ L[2].meta.undo /\ L[3].meta.redo
       /\ L[1].modifiedLineCount > L[1].originalLineCount
       /\ L[1].hashBefore # L[1].hashAfter
       /\ resp.op = "redo" /\ resp.status = 200
\* ----------------------------------------------------------------- C15
\* C15: getEvents, canUndo, canRedo and the history-state query only read:
\* for a path with or without a log they leave every log, the set of paths
\* that have a log, the sequence counter and the files unchanged, and
\* getEvents answers the empty sequence for a path without a log.
Queries == {"getEvents", "canUndo", "canRedo", "state"}

QueriesOnlyRead ==
    [][resp'.op \in Queries =>
          /\ DOMAIN store' = DOMAIN store
          /\ \A f \in Paths : getEvents(store', f) = getEvents(store, f)
          /\ globalSeq' = globalSeq
          /\ disk' = disk
          /\ resp'.op = "getEvents" =>
                 /\ resp'.events = getEvents(store, resp'.path)
                 /\ resp'.path \notin DOMAIN store => resp'.events = <<>>]_vars

\* getEvents has answered for a path without a log while another path has
\* one, and no log has appeared for the path asked about
QueriesOnlyReadWitness ==
    /\ resp.op = "getEvents" /\ resp.path = "f2" /\ resp.events = <<>>
    /\ DOMAIN store = {"f1"}
\* ----------------------------------------------------------------- C16
\* C16: logs are partitioned by path: an apply, undo, redo or appendEvent on
\* file X leaves the log of every other file Y as it was, and with it
\* canUndo(Y), canRedo(Y) and what the next undo or redo on Y would answer;
\* of the shared state only the sequence counter moves, by one per event.
\* what an undo of f would answer: status and, on success, the new content
UndoOutcome(st, dk, f) ==
    LET events == getEvents(st, f)
        E == findLastEffective(events, buildIneffectiveSeqs(events))
    IN IF E = None THEN <<400>>
       ELSE IF f \notin DOMAIN dk THEN <<404>>
       ELSE IF hashContent(dk[f]) # E.hashAfter THEN <<409>>
       ELSE <<200, E.seq, replaceRange(dk[f], E.startLine, E.modifiedLineCount, E.original)>>

RedoOutcome(st, dk, f) ==
    LET events == getEvents(st, f)
        U == findLastUndone(events, buildIneffectiveSeqs(events))
    IN IF U = None THEN <<400>>
       ELSE IF f \notin DOMAIN dk THEN <<404>>
       ELSE IF hashContent(dk[f]) # U.hashAfter THEN <<409>>
       ELSE <<200, U.seq, replaceRange(dk[f], U.startLine, U.modifiedLineCount,
                                       eventBySeq(events, U.meta.undoTarget).modified)>>

LogsPartitionedByPath ==
    [][\A X \in Paths :
          (resp'.path = X /\ resp'.op \in {"apply", "undo", "redo", "append"}) =>
              /\ \A Y \in Paths \ {X} :
                     /\ (Y \in DOMAIN store') <=> (Y \in DOMAIN store)
                     /\ getEvents(store', Y) = getEvents(store, Y)
                     /\ canUndo(store', Y) = canUndo(store, Y)
                     /\ canRedo(store', Y) = canRedo(store, Y)
                     /\ UndoOutcome(store', disk', Y) = UndoOutcome(store, disk, Y)
                     /\ RedoOutcome(store', disk', Y) = RedoOutcome(store, disk, Y)
              /\ globalSeq' = IF getEvents(store', X) # getEvents(store, X)
                               THEN globalSeq + 1 ELSE globalSeq]_vars

\* an undo on one file has succeeded while the other file has an edit of
\* its own that is still undoable
LogsPartitionedByPathWitness ==
    /\ resp.op = "undo" /\ resp.status = 200 /\ resp.path = "f1"
    /\ Len(getEvents(store, "f1")) = 2
    /\ Len(getEvents(store, "f2")) = 1
    /\ canUndo(store, "f2") /\ ~canUndo(store, "f1")
    /\ UndoOutcome(store, disk, "f2")[1] = 200
\* ----------------------------------------------------------------- C17
\* C17: validation fails before any effect: an apply without a valid
\* filePath or with startLine > endLine, and an undo or redo without a
\* filePath, answer 400 ValidationError; an apply on a file that does not
\* exist answers 404 NotFoundError; in each case no file is modified and
\* no event is appended.
Refused(status, error) ==
    /\ resp'.status = status /\ resp'.error = error
    /\ Untouched

ValidationBeforeEffect ==
    [][/\ resp'.op = "apply" =>
             LET f == resp'.path
                 Ranges == (1..MaxLines) \X (1..MaxLines)
                 \* the ranges whose request must be refused, and how
                 Invalid == IF f = NoPath THEN Ranges ELSE {r \in Ranges : r[1] > r[2]}
                 Missing == IF f # NoPath /\ f \notin DOMAIN disk
                            THEN Ranges \ Invalid ELSE {}
             IN /\ (\E r \in Invalid : \E text \in ModTexts : Apply(f, r[1], r[2], text))
                       => Refused(400, "ValidationError")
                /\ (\E r \in Missing : \E text \in ModTexts : Apply(f, r[1], r[2], text))
                       => Refused(404, "NotFoundError")
       /\ (resp'.op = "undo" /\ Undo(NoPath)) => Refused(400, "ValidationError")
       /\ (resp'.op = "redo" /\ Redo(NoPath)) => Refused(400, "ValidationError")
       /\ resp'.error \in {"ValidationError", "NotFoundError"} => Untouched]_vars

\* an apply on a file that does not exist has been refused while the
\* existing file has a log and an outside write on disk
ValidationBeforeEffectWitness ==
    /\ resp.op = "apply" /\ resp.path = "f2" /\ resp.status = 404
    /\ "f2" \notin DOMAIN disk
    /\ Len(getEvents(store, "f1")) = 2
    /\ disk["f1"] \in ExternalTexts
\* ----------------------------------------------------------------- C18
\* C18: after two successful applies A and B on one file that touch
\* disjoint line ranges and keep the line count of their range, both edits
\* can be undone and redone by undo/redo requests with no ConflictError,
\* and each undo or redo changes only lines of its own recorded range.
Range(e) == e.startLine..e.endLine
KeepsCount(e) == e.originalLineCount = e.modifiedLineCount

\* the log starts with two such applies and goes on with undos and redos only
TwoDisjointApplies(L) ==
    /\ Len(L) >= 2
    /\ IsPlain(L[1]) /\ IsPlain(L[2])
    /\ KeepsCount(L[1]) /\ KeepsCount(L[2])
    /\ Range(L[1]) \cap Range(L[2]) = {}
    /\ \A k \in 3..Len(L) : ~IsPlain(L[k])

\* the file has changed through the logged events only
NoOutOfBand(f) ==
    LET L == getEvents(store, f)
    IN /\ \A k \in 2..Len(L) : snap[L[k].seq] = post[L[k - 1].seq]
       /\ L # <<>> => disk[f] = post[Last(L).seq]

DisjointEditsUndoRedo ==
    [][\A f \in Paths :
          (resp'.path = f /\ resp'.op \in {"undo", "redo"}) =>
              LET L == getEvents(store, f)
                  target == IF resp'.op = "undo" THEN MostRecentEffective(L)
                                                ELSE MostRecentUndone(L)
              IN (TwoDisjointApplies(L) /\ NoOutOfBand(f)) =>
                    /\ resp'.status = IF target = None THEN 400 ELSE 200
                    /\ resp'.status = 200 =>
                           LET ev == Last(getEvents(store', f))
                           IN /\ Range(ev) = Range(target)
                              /\ Range(ev) \in {Range(L[1]), Range(L[2])}
                              /\ Len(disk'[f]) = Len(disk[f])
                              /\ \A i \in 1..Len(disk[f]) :
                                     i \notin Range(ev) => disk'[f][i] = disk[f][i]]_vars

\* A and B each changed a line of their own, both were undone and both
\* redone: the file is where B left it
DisjointEditsUndoRedoWitness ==
    LET L == getEvents(store, "f1")
    IN /\ Len(L) = 6 /\ TwoDisjointApplies(L) /\ NoOutOfBand("f1")
       /\ L[1].original # L[1].modified /\ L[2].original # L[2].modified
       /\ L[3].meta.undo /\ L[4].meta.undo /\ L[5].meta.redo /\ L[6].meta.redo
       /\ resp.op = "redo" /\ resp.status = 200
       /\ disk["f1"] = post[L[2].seq]
\* ----------------------------------------------------------------- C20
\* C20: right after every successful apply, undo or redo the digest of the
\* file's content is the hashAfter of the event just appended; and when the
\* file has not been modified from outside since the previous successful
\* operation on it, the new event's hashBefore is the previous event's
\* hashAfter.
HashesChain ==
    [][\A f \in Paths :
          (resp'.path = f /\ resp'.status = 200 /\ resp'.op \in {"apply", "undo", "redo"}) =>
              LET L == getEvents(store, f)
                  ev == Last(getEvents(store', f))
              IN /\ Len(getEvents(store', f)) = Len(L) + 1
                 /\ digest(disk'[f]) = ev.hashAfter
                 /\ (L # <<>> /\ disk[f] = post[Last(L).seq]) =>
                        ev.hashBefore = Last(L).hashAfter]_vars

\* a redo has succeeded on a log of four events whose stamps chain, the two
\* before it with different hashes
HashesChainWitness ==
    LET L == getEvents(store, "f1")
    IN /\ resp.op = "redo" /\ resp.status = 200 /\ resp.path = "f1"
       /\ Len(L) = 4 /\ NoOutOfBand("f1")
       /\ \A k \in 2..4 : L[k].hashBefore = L[k - 1].hashAfter
       /\ L[3].hashAfter # L[3].hashBefore
       /\ digest(disk["f1"]) = L[4].hashAfter
\* ----------------------------------------------------------------- C21
\* C21: as long as the file is never modified out of band, in every state
\* that apply, undo and redo requests reach, an undo request made while
\* canUndo is true succeeds; it never fails with ConflictError.
UndoSucceedsWhenCanUndo ==
    [][\A f \in Paths :
          (Requested("undo", f) /\ canUndo(store, f) /\ NoOutOfBand(f)) =>
              /\ resp'.status = 200
              /\ resp'.error # "ConflictError"]_vars

\* an undo has succeeded on a log where a redo had been undone before: the
\* event it named is an apply buried under an undo, a redo and another undo
UndoSucceedsWhenCanUndoWitness ==
    LET L == getEvents(store, "f1")
    IN /\ resp.op = "undo" /\ resp.status = 200 /\ resp.path = "f1"
       /\ Len(L) = 6 /\ NoOutOfBand("f1")
       /\ IsPlain(L[1]) /\ IsPlain(L[2])
       /\ snap[L[1].seq] # post[L[1].seq] /\ snap[L[2].seq] # post[L[2].seq]
       /\ L[3].meta.undo /\ L[4].meta.redo /\ L[5].meta.undo
       /\ L[6].meta.undo /\ L[6].meta.undoTarget = L[1].seq
\* ----------------------------------------------------------------- C22
\* C22: with the operations on a file executed one at a time, no event of
\* its log is the undoTarget of more than one undo event, and no undo event
\* is the redoTarget of more than one redo event.
TargetedAtMostOnce ==
    \A f \in Paths :
        LET L == getEvents(store, f)
        IN \A i, j \in 1..Len(L) :
              i # j =>
                  /\ (L[i].meta.undo /\ L[j].meta.undo) =>
                         L[i].meta.undoTarget # L[j].meta.undoTarget
                  /\ (L[i].meta.redo /\ L[j].meta.redo) =>
                         L[i].meta.redoTarget # L[j].meta.redoTarget

\* an edit that leaves the content as it was has been undone, redone and
\* undone again: the hash gate passes at every step, the three targets differ
TargetedAtMostOnceWitness ==
    LET L == getEvents(store, "f1")
    IN /\ Len(L) = 5
       /\ IsPlain(L[1]) /\ snap[L[1].seq] = post[L[1].seq]
       /\ L[2].meta.undo /\ L[3].meta.redo /\ L[4].meta.undo /\ L[5].meta.redo
       /\ L[2].meta.undoTarget = L[1].seq /\ L[4].meta.undoTarget = L[3].seq
       /\ L[3].meta.redoTarget = L[2].seq /\ L[5].meta.redoTarget = L[4].seq
\* ----------------------------------------------------------------- C23
\* C23: in every reachable state a file with a non-empty log has canUndo or
\* canRedo true, because the most recent event is never in the ineffective
\* set and so is an undo candidate or a redo candidate; both are false only
\* when the log is empty.
SomeCandidateUnlessEmpty ==
    \A f \in Paths :
        LET L == getEvents(store, f)
        IN /\ (~canUndo(store, f) /\ ~canRedo(store, f)) <=> (L = <<>>)
           /\ L # <<>> =>
                  /\ Last(L).seq \notin buildIneffectiveSeqs(L)
                  /\ IF Last(L).meta.undo THEN canRedo(store, f) ELSE canUndo(store, f)

\* every event but the last is cancelled: the undo of a redo is the only
\* candidate left, canUndo is false and canRedo is true
SomeCandidateUnlessEmptyWitness ==
    LET L == getEvents(store, "f1")
    IN /\ Len(L) = 4
       /\ IsPlain(L[1]) /\ L[2].meta.undo /\ L[3].meta.redo /\ L[4].meta.undo
       /\ buildIneffectiveSeqs(L) = {L[1].seq, L[2].seq, L[3].seq}
       /\ ~canUndo(store, "f1") /\ canRedo(store, "f1")
\* ----------------------------------------------------------------- C24
\* the log ends with n plain applies, n undo events and r redo events, and
\* the file was written by nothing else from the first of these applies on
ApplyUndoRedoRun(f, n, r) ==
    LET L == getEvents(store, f)
        base == Len(L) - r - 2 * n
    IN /\ base >= 0
       /\ \A i \in 1..n : IsPlain(L[base + i])
       /\ \A i \in 1..n : L[base + n + i].meta.undo
       /\ \A i \in 1..r : L[base + 2 * n + i].meta.redo
       /\ \A i \in 1..(2 * n + r - 1) : snap[L[base + i + 1].seq] = post[L[base + i].seq]
       /\ disk[f] = post[Last(L).seq]

\* C24: after applies A1..An and n successful undos on one file with no
\* out-of-band change, n successive redo requests all succeed; the k-th
\* re-applies Ak and restores the content the file had right after Ak; after
\* the n-th the file holds its content after An, canUndo is true and, the
\* log having had no redo candidate before A1, canRedo is false.
RedoReplaysInOrder ==
    [][\A f \in Paths :
          Requested("redo", f) =>
              LET L == getEvents(store, f)
              IN \A n \in 1..Len(L) : \A k \in 1..n :
                    ApplyUndoRedoRun(f, n, k - 1) =>
                        LET base == Len(L) - (k - 1) - 2 * n
                            A == L[base + k]
                            U == L[base + 2 * n - k + 1]
                        IN /\ resp'.status = 200
                           /\ U.meta.undoTarget = A.seq
                           /\ Last(getEvents(store', f)).meta.redoTarget = U.seq
                           /\ disk'[f] = post[A.seq]
                           /\ k = n =>
                                  /\ disk'[f] = post[L[base + n].seq]
                                  /\ canUndo(store', f)
                                  /\ MostRecentUndone(SubSeq(L, 1, base)) = None =>
                                         ~canRedo(store', f)]_vars

\* two content-changing applies, two undos and two redos: the second redo
\* has named the undo of A2 and the file is where A2 left it
RedoReplaysInOrderWitness ==
    LET L == getEvents(store, "f1")
    IN /\ resp.op = "redo" /\ resp.status = 200 /\ resp.path = "f1"
       /\ Len(L) = 6
       /\ IsPlain(L[1]) /\ IsPlain(L[2])
       /\ snap[L[1].seq] # post[L[1].seq] /\ snap[L[2].seq] # post[L[2].seq]
       /\ post[L[1].seq] # post[L[2].seq]
       /\ L[3].meta.undoTarget = L[2].seq /\ L[4].meta.undoTarget = L[1].seq
       /\ L[5].meta.redoTarget = L[4].seq /\ L[6].meta.redoTarget = L[3].seq
       /\ disk["f1"] = post[L[2].seq]
       /\ canUndo(store, "f1") /\ ~canRedo(store, "f1")
\* ----------------------------------------------------------------- C25
\* C25: a successful apply appends an event without undo or redo meta; it
\* makes canUndo true and leaves canRedo as it was before the apply: an undo
\* event that no redo has named stays the redo candidate after later applies.
ApplyKeepsRedoCandidate ==
    [][\A f \in Paths :
          (Requested("apply", f) /\ resp'.status = 200) =>
              LET L == getEvents(store, f)
                  M == getEvents(store', f)
              IN /\ Len(M) = Len(L) + 1
                 /\ IsPlain(Last(M))
                 /\ canUndo(store', f)
                 /\ canRedo(store', f) = canRedo(store, f)
                 /\ findLastUndone(M, buildIneffectiveSeqs(M))
                        = findLastUndone(L, buildIneffectiveSeqs(L))
                 /\ MostRecentUndone(M) = MostRecentUndone(L)]_vars

\* an apply has succeeded after the undo of an earlier apply: the file can
\* be undone again and the old undo event is still the redo candidate
ApplyKeepsRedoCandidateWitness ==
    LET L == getEvents(store, "f1")
    IN /\ resp.op = "apply" /\ resp.status = 200 /\ resp.path = "f1"
       /\ Len(L) = 3 /\ IsPlain(L[1]) /\ IsPlain(L[3])
       /\ L[2].meta.undo /\ L[2].meta.undoTarget = L[1].seq
       /\ snap[L[3].seq] # post[L[3].seq]
       /\ canUndo(store, "f1") /\ canRedo(store, "f1")
       /\ findLastUndone(L, buildIneffectiveSeqs(L)) = L[2]
====
